---- MODULE Spec2Model ----
(***************************************************************************)
(* A model of the LinkedIn comments email scraper:                         *)
(*   linkedin_scraper.py  LinkedInCommentsScraper and the CLI main()       *)
(*   example_usage.py     the library-usage main()                         *)
(* Text is a sequence of one-character strings. The browser (Selenium      *)
(* driver) and the page are the environment: every driver operation either *)
(* returns a value drawn from a small set or raises.                       *)
(***************************************************************************)
EXTENDS Integers, Sequences, FiniteSets, TLC

(***************************************************************************)
(* Bounds of the model.                                                    *)
(***************************************************************************)
\* largest extent (document.body.scrollHeight) the page reports
MaxHeight == 3
\* number of measurements of one run of the expansion loop that are recorded
MaxIter == 7

(***************************************************************************)
(* Characters and text.                                                    *)
(***************************************************************************)
\* the characters of the model's texts in code-point order
AsciiOrder ==
  << "\n", " ", "!", "#", "%", "+", "-", ".", "/",
     "0", "1", "2", "3", "4", "5", "6", "7", "8", "9", ":", "=", "?", "@",
     "A", "B", "C", "D", "E", "F", "G", "H", "I", "J", "K", "L", "M",
     "N", "O", "P", "Q", "R", "S", "T", "U", "V", "W", "X", "Y", "Z", "_",
     "a", "b", "c", "d", "e", "f", "g", "h", "i", "j", "k", "l", "m",
     "n", "o", "p", "q", "r", "s", "t", "u", "v", "w", "x", "y", "z",
     "{", "|", "}" >>

Ord(c) == CHOOSE i \in DOMAIN AsciiOrder : AsciiOrder[i] = c

CharRange(lo, hi) == { AsciiOrder[i] : i \in Ord(lo)..Ord(hi) }

Upper == CharRange("A", "Z")
Lower == CharRange("a", "z")
Digits == CharRange("0", "9")

\* [A-Za-z0-9._%+-]
LocalChars == Upper \cup Lower \cup Digits \cup {".", "_", "%", "+", "-"}
\* [A-Za-z0-9.-]
DomainChars == Upper \cup Lower \cup Digits \cup {".", "-"}
\* [A-Z|a-z]: the bar inside the brackets is a literal member of the class
TldChars == Upper \cup {"|"} \cup Lower
\* \w of the regex engine
WordChars == Upper \cup Lower \cup Digits \cup {"_"}

IsWordAt(s, k) == k \in 1..Len(s) /\ s[k] \in WordChars

\* \b between s[p-1] and s[p]
Boundary(s, p) == IsWordAt(s, p - 1) # IsWordAt(s, p)

\* the first index >= i whose character is outside class (Len(s)+1 if none)
RunEnd(s, i, class) ==
  CHOOSE j \in i..(Len(s) + 1) :
    /\ \A k \in i..(j - 1) : s[k] \in class
    /\ (j <= Len(s) => s[j] \notin class)

\* The regex of extract_emails_from_text tried at position i: the index just
\* after the match, 0 when there is none. Quantifiers are greedy and give
\* back: the longest domain part first, then the longest TLD.
MatchAt(s, i) ==
  IF ~(i \in 1..Len(s) /\ Boundary(s, i)) THEN 0
  ELSE
    LET at == RunEnd(s, i, LocalChars) IN
    IF ~(at > i /\ at <= Len(s) /\ s[at] = "@") THEN 0
    ELSE
      LET domEnd == RunEnd(s, at + 1, DomainChars)
          TldStops(dot) ==
            { e \in (dot + 3)..RunEnd(s, dot + 1, TldChars) : Boundary(s, e) }
          Dots == { d \in (at + 2)..(domEnd - 1) :
                      s[d] = "." /\ TldStops(d) # {} }
      IN IF Dots = {} THEN 0
         ELSE LET dot == CHOOSE d \in Dots : \A o \in Dots : o <= d
                  stops == TldStops(dot)
              IN CHOOSE e \in stops : \A o \in stops : o <= e

\* re.findall: leftmost matches, scanned left to right, not overlapping
RECURSIVE FindAll(_, _)
FindAll(s, i) ==
  IF i > Len(s) THEN {}
  ELSE LET e == MatchAt(s, i) IN
       IF e = 0 THEN FindAll(s, i + 1)
       ELSE {SubSeq(s, i, e - 1)} \cup FindAll(s, e)

extract_emails_from_text(text) == FindAll(text, 1)

\* pat occurs in s as a contiguous run (Python's `pat in s`)
Contains(s, pat) ==
  \E i \in 1..(Len(s) - Len(pat) + 1) : SubSeq(s, i, i + Len(pat) - 1) = pat

\* str.strip() for the blank character
RECURSIVE Strip(_)
Strip(s) ==
  IF s = << >> THEN s
  ELSE IF Head(s) = " " THEN Strip(Tail(s))
  ELSE IF s[Len(s)] = " " THEN Strip(SubSeq(s, 1, Len(s) - 1))
  ELSE s

RECURSIVE Concat(_)
Concat(ss) == IF ss = << >> THEN << >> ELSE Head(ss) \o Concat(Tail(ss))

\* the first index >= from whose character is in set (Len(s)+1 if none)
FirstIndex(s, set, from) ==
  CHOOSE j \in from..(Len(s) + 1) :
    /\ \A k \in from..(j - 1) : s[k] \notin set
    /\ (j <= Len(s) => s[j] \in set)

\* ascending order of Python strings: by code point, a proper prefix first
LexLess(a, b) ==
  \E k \in 1..(Len(b)) :
    /\ \A j \in 1..(k - 1) : j <= Len(a) /\ a[j] = b[j]
    /\ k - 1 <= Len(a)
    /\ (k > Len(a) \/ Ord(a[k]) < Ord(b[k]))

RECURSIVE sorted_reverse(_)
\* sorted(emails, reverse=True)
sorted_reverse(S) ==
  IF S = {} THEN << >>
  ELSE LET most == CHOOSE x \in S : \A y \in S \ {x} : LexLess(y, x)
       IN << most >> \o sorted_reverse(S \ {most})

\* sorted(emails)
RECURSIVE sorted(_)
sorted(S) ==
  IF S = {} THEN << >>
  ELSE LET least == CHOOSE x \in S : \A y \in S \ {x} : LexLess(x, y)
       IN << least >> \o sorted(S \ {least})

(***************************************************************************)
(* validate_linkedin_url                                                   *)
(***************************************************************************)
SchemeChars == Upper \cup Lower \cup Digits \cup {"+", "-", "."}

\* urlparse(url), the two fields the validator reads
urlparse(u) ==
  LET colon == FirstIndex(u, {":"}, 1)
      hasScheme == /\ colon > 1 /\ colon <= Len(u)
                   /\ u[1] \in Upper \cup Lower
                   /\ \A k \in 1..(colon - 1) : u[k] \in SchemeChars
      rest == IF hasScheme THEN SubSeq(u, colon + 1, Len(u)) ELSE u
      hasNet == Len(rest) >= 2 /\ rest[1] = "/" /\ rest[2] = "/"
      delim == IF hasNet THEN FirstIndex(rest, {"/", "?", "#"}, 3) ELSE 1
      tail == SubSeq(rest, delim, Len(rest))
      pathEnd == FirstIndex(tail, {"?", "#"}, 1)
  IN [ netloc |-> IF hasNet THEN SubSeq(rest, 3, delim - 1) ELSE << >>,
       path |-> SubSeq(tail, 1, pathEnd - 1) ]

validate_linkedin_url(u) ==
  LET parsed_url == urlparse(u) IN
    /\ Contains(parsed_url.netloc, <<"l", "i", "n", "k", "e", "d", "i", "n", ".", "c", "o",
          "m">>)
    /\ \/ Contains(parsed_url.path, <<"/", "p", "o", "s", "t", "s", "/">>)
       \/ Contains(parsed_url.path, <<"/", "f", "e", "e", "d", "/", "u", "p", "d", "a", "t",
             "e", "/">>)

\* the post URLs given on the command line or typed at the prompt
Urls ==
  { <<"h", "t", "t", "p", "s", ":", "/", "/", "w", "w", "w", ".", "l", "i", "n", "k", "e", "d",
        "i", "n", ".", "c", "o", "m", "/", "p", "o", "s", "t", "s", "/", "a", "b", "c", "1",
        "2", "3">>,
    <<"h", "t", "t", "p", "s", ":", "/", "/", "w", "w", "w", ".", "l", "i", "n", "k", "e", "d",
          "i", "n", ".", "c", "o", "m", "/", "f", "e", "e", "d", "/", "u", "p", "d", "a", "t",
          "e", "/", "u", "r", "n", ":", "l", "i", ":", "a", "c", "t", "i", "v", "i", "t", "y",
          ":", "1">>,
    <<"h", "t", "t", "p", "s", ":", "/", "/", "w", "w", "w", ".", "e", "x", "a", "m", "p", "l",
          "e", ".", "c", "o", "m", "/", "p", "o", "s", "t", "s", "/", "1", "2", "3">>,
    <<"h", "t", "t", "p", "s", ":", "/", "/", "w", "w", "w", ".", "l", "i", "n", "k", "e", "d",
          "i", "n", ".", "c", "o", "m", "/", "i", "n", "/", "s", "o", "m", "e", "o", "n", "e">>,
    <<"h", "t", "t", "p", "s", ":", "/", "/", "w", "w", "w", ".", "l", "i", "n", "k", "e", "d",
          "i", "n", ".", "c", "o", "m", "/", "i", "n", "/", "x", "?", "q", "=", "/", "p", "o",
          "s", "t", "s", "/">>,
    <<"l", "i", "n", "k", "e", "d", "i", "n", ".", "c", "o", "m", "/", "p", "o", "s", "t", "s",
          "/", "1">> }

(***************************************************************************)
(* The rendered document (driver.page_source parsed by BeautifulSoup).     *)
(* An element carries the comment selectors it matches, the text strings   *)
(* below it in document order, and whether it is a top-level region (an    *)
(* element nested in another one repeats strings of its ancestor). A       *)
(* script is its .string, or NoString when it has none.                    *)
(***************************************************************************)
NoString == "None"

\* comment_selectors, by position in the list
comment_selectors == 1..6

Element(matches, top, strings) ==
  [ matches |-> matches, top |-> top, strings |-> strings ]

DocEmpty == [ elements |-> << >>, scripts |-> << >> ]

\* patterns 1 and 3 both match, with different addresses
DocOneAndThree ==
  [ elements |-> << Element({1}, TRUE, << <<"m", "a", "i", "l", " ">>, <<" ", "z", "@", "x",
        ".", "c", "o">> >>),
                    Element({3}, TRUE, << <<"o", "r", " ", "a", "@", "x", ".", "c", "o",
                          "!">> >>) >>,
    scripts |-> << >> ]

\* pattern 3 matches an element nested in a pattern-1 element, pattern 6 another
DocNested ==
  [ elements |-> << Element({1}, TRUE, << <<"a", "@", "x", ".", "c", "o", " ">>, <<"b", "@",
        "y", ".", "i", "o">> >>),
                    Element({3}, FALSE, << <<"b", "@", "y", ".", "i", "o">> >>),
                    Element({6}, TRUE, << <<"1", "2", " ", "l", "i", "k", "e", "s">> >>) >>,
    scripts |-> << <<"{", "m", ":", "s", "@", "j", ".", "d", "e", "}">> >> ]

\* no pattern matches; an address in the visible text, one in a script
DocFallback ==
  [ elements |-> << Element({}, TRUE, << <<"w", "r", "i", "t", "e", " ", "t", "o", " ", "c",
        "@", "y", ".", "i", "o", "!">> >>) >>,
    scripts |-> << NoString, <<"{", "m", ":", "s", "@", "j", ".", "d", "e", "}">> >> ]

\* no address anywhere
DocNoEmail ==
  [ elements |-> << Element({2}, TRUE, << <<"h", "e", "l", "l", "o", " ", "@", "a", "l",
        "l">> >>) >>,
    scripts |-> << <<"x", "=", "1">> >> ]

Docs == { DocEmpty, DocOneAndThree, DocNested, DocFallback, DocNoEmail }

\* soup.select(selector)
select(doc, selector) ==
  LET Matches(e) == selector \in e.matches IN SelectSeq(doc.elements, Matches)

\* comment.get_text(strip=True): the stripped strings, joined
get_text_strip(e) == Concat([ i \in DOMAIN e.strings |-> Strip(e.strings[i]) ])

\* soup.get_text(): every string of the document, as is
get_text(doc) ==
  LET Top(e) == e.top
      tops == SelectSeq(doc.elements, Top)
  IN Concat([ i \in DOMAIN tops |-> Concat(tops[i].strings) ])

EmailsOfNodes(nodes) ==
  UNION { extract_emails_from_text(get_text_strip(nodes[i])) : i \in DOMAIN nodes }

MatchingSelectors(doc) == { s \in comment_selectors : select(doc, s) # << >> }

\* the selector walk stops after the first pattern that matches
ProcessedFirstOnly(doc) ==
  { s \in MatchingSelectors(doc) : \A o \in MatchingSelectors(doc) : s <= o }

\* the selectors whose nodes the walk hands to the extractor: the for loop
\* has no break, so every selector with a match
SelectorsProcessed(doc) == MatchingSelectors(doc)

SelectorEmails(doc) ==
  UNION { EmailsOfNodes(select(doc, s)) : s \in SelectorsProcessed(doc) }

\* comments_found is never set
comments_found_never(doc) == FALSE

\* comments_found after the selector walk
comments_found(doc) == MatchingSelectors(doc) # {}

\* what the fallback on the whole text adds: it runs `if not comments_found`
FallbackEmails(doc) ==
  IF comments_found(doc) THEN {} ELSE extract_emails_from_text(get_text(doc))

ScriptEmails(doc) ==
  UNION { IF doc.scripts[i] = NoString THEN {}
          ELSE extract_emails_from_text(doc.scripts[i]) : i \in DOMAIN doc.scripts }

\* all_emails = emails
assigned(all_emails, more) == more

\* all_emails.update(emails)
update(all_emails, more) == all_emails \cup more

RECURSIVE AfterSelectors(_, _)
\* all_emails after the walk over the selectors 1..s
AfterSelectors(doc, s) ==
  IF s = 0 THEN {}
  ELSE LET before == AfterSelectors(doc, s - 1) IN
         IF s \in SelectorsProcessed(doc)
         THEN update(before, EmailsOfNodes(select(doc, s)))
         ELSE before

\* all_emails after the fallback on the text of the whole page
AfterFallback(doc) ==
  LET before == AfterSelectors(doc, Cardinality(comment_selectors)) IN
    IF comments_found(doc) THEN before
    ELSE update(before, extract_emails_from_text(get_text(doc)))

RECURSIVE AfterScripts(_, _)
\* all_emails after the first n script tags
AfterScripts(doc, n) ==
  IF n = 0 THEN AfterFallback(doc)
  ELSE LET before == AfterScripts(doc, n - 1) IN
         IF doc.scripts[n] = NoString THEN before
         ELSE update(before, extract_emails_from_text(doc.scripts[n]))

\* all_emails as scrape_comments returns it for a document
HarvestEmails(doc) == AfterScripts(doc, Len(doc.scripts))

(***************************************************************************)
(* save_emails_to_file                                                     *)
(***************************************************************************)
\* the destination: whether it exists, and its text
NoFile == [ exists |-> FALSE, text |-> << >> ]

FileWith(text) == [ exists |-> TRUE, text |-> text ]

\* what is in the destination before the run, when there is one
OldContent == FileWith(<<"o", "l", "d", "@", "x", ".", "c", "o", "\n">>)

\* the text of the first k lines of the sorted addresses
WrittenLines(emails, k) ==
  LET lines == sorted(emails) IN
    Concat([ i \in 1..k |-> lines[i] \o << "\n" >> ])

\* the ways a write ends: open() raises, a write raises after some lines, or
\* every line is written
WriteOutcomes(emails) ==
  { [kind |-> "open_raises", lines |-> 0],
    [kind |-> "ok", lines |-> Cardinality(emails)] }
  \cup { [kind |-> "write_raises", lines |-> k] : k \in 0..(Cardinality(emails) - 1) }

\* the destination after save_emails_to_file: open(filename, 'w') empties it
FileAfterSave(before, emails, how) ==
  IF how.kind = "open_raises" THEN before
  ELSE FileWith(WrittenLines(emails, how.lines))

(***************************************************************************)
(* load_all_comments                                                       *)
(***************************************************************************)
\* retries = 3
retries == 3

\* the extents the page can report
Heights == 0..MaxHeight

\* show_more_selectors, by position in the list
show_more_selectors == 1..9

\* What find_elements gives for each selector of one pass: << "raise" >>, or
\* the buttons found, each "visible", "hidden" (is_displayed is False),
\* "stale" (is_displayed raises) or "blocked" (the click script raises).
NoControls == [ s \in show_more_selectors |-> << >> ]

ControlPages ==
  { NoControls,
    [ NoControls EXCEPT ![1] = << "visible" >>,
                        ![2] = << "raise" >>,
                        ![3] = << "raise" >>,
                        ![4] = << "hidden", "visible" >>,
                        ![6] = << "stale", "visible", "blocked", "visible" >> ],
    [ NoControls EXCEPT ![1] = << "raise" >>,
                        ![5] = << "blocked", "visible" >>,
                        ![9] = << "visible", "stale" >> ] }

\* a lookup or a button that raises
Failing(status) == status \in {"raise", "stale", "blocked"}

RECURSIVE ClicksUntilFailure(_, _)
\* one handler around the whole pass: the first failure ends the pass
ClicksUntilFailure(page, s) ==
  IF s \notin show_more_selectors THEN << >>
  ELSE LET buttons == page[s]
           Fails(i) == Failing(buttons[i])
           failures == SelectSeq([ i \in DOMAIN buttons |-> i ], Fails)
           stop == IF failures = << >> THEN Len(buttons) + 1 ELSE Head(failures)
           Hit(i) == i < stop /\ buttons[i] = "visible"
           hits == SelectSeq([ i \in DOMAIN buttons |-> i ], Hit)
           here == [ i \in DOMAIN hits |-> << s, hits[i] >> ]
       IN IF failures = << >> THEN here \o ClicksUntilFailure(page, s + 1) ELSE here

RECURSIVE ClicksOf(_, _)
\* the clicks of one pass over the selectors from s on, in order
ClicksOf(page, s) ==
  IF s \notin show_more_selectors THEN << >>
  ELSE LET buttons == page[s]
           Visible(i) == buttons[i] = "visible"
           hits == SelectSeq([ i \in DOMAIN buttons |-> i ], Visible)
       IN [ i \in DOMAIN hits |-> << s, hits[i] >> ] \o ClicksOf(page, s + 1)

\* the loop left one unchanged measurement early
KeepLoopingShort(a) == a + 1 < retries

\* while attempts < retries, with <= for <
KeepLoopingInclusive(a) == a <= retries

\* while attempts < retries
KeepLooping(a) == a < retries

\* the comparison taken as "no growth" only when the extent did not shrink
UnchangedOrSmaller(new_height, last) == new_height <= last

\* if new_height == last_height
Unchanged(new_height, last) == new_height = last

\* a handler inside the loop body: the loop goes on after a failure
AfterLoopErrorContinue == "expanding"

\* where control is after a driver call of the loop raises: the handler is
\* outside the while loop and falls off the end of the function
AfterLoopError == "terminal"

(***************************************************************************)
(* The context manager, login result and URL check.                        *)
(***************************************************************************)
\* __exit__ closing only when the block raised nothing
exit_closes_on_success_only(raising) == ~raising

\* __exit__ calls close() whatever ended the block
exit_closes(raising) == TRUE

\* a login that reports success when a step raised something else than a timeout
login_result_lenient(step) == step # "timeout"

\* login_to_linkedin: True only when every step went through
login_result(step) == step = "ok"

\* scrape_comments without the URL check
scrape_accepts_all(u) == FALSE

\* scrape_comments raises ValueError for a URL that fails validation
scrape_rejects(u) == ~validate_linkedin_url(u)

\* main() saving whatever scrape_comments returned
main_saves_always(result) == TRUE

\* main(): save_emails_to_file is called only `if emails`
main_saves(result) == result # {}

\* main() of linkedin_scraper.py wraps the run in try/except Exception;
\* main() of example_usage.py has no handler
Entries == {"cli", "example"}

main_catches(e) == e = "cli"

(***************************************************************************)
(* State                                                                   *)
(***************************************************************************)
VARIABLES
  entry,        \* which main() runs
  url,          \* the post URL given
  file,         \* content of the output destination, or NoFile
  pc,           \* where the run is
  driver,       \* self.driver: "None" or "live"
  ran,          \* the steps and driver operations performed so far
  quits,        \* number of driver.quit() calls
  lateOps,      \* a driver operation was performed without a live driver
  loginStep,    \* how the login steps ended: "none", "ok", "timeout", "error"
  raised,       \* the exception that left scrape_comments or the constructor
  outcome,      \* how main() ended
  last_height,  \* load_all_comments: last_height
  attempts,     \* load_all_comments: attempts
  new_height,   \* load_all_comments: new_height, the latest measurement
  iterations,   \* measurements taken in this run of the loop (counted to MaxIter)
  changes,      \* those that differed from the measurement before
  lastChange,   \* the iteration of the latest of them
  decreased,    \* some measurement was smaller than the one before
  stableRun,    \* length of the run of equal measurements that ends with the
                \* latest one
  passes,       \* click passes run in this run of the loop
  lastPage,     \* what the lookups of the latest click pass found
  clicks,       \* the clicks of the latest click pass
  loopEnd,      \* "none", "converged" (loop condition) or "failed" (a raise)
  snapshot,     \* the document harvested, NoDoc when page_source was not read
  emails,       \* the set scrape_comments returned to main()
  writes,       \* number of calls of save_emails_to_file
  saveEnd,      \* how the latest of them ended: "none", "ok", "open_raises" or
                \* "write_raises"
  text,         \* the argument of a direct call of extract_emails_from_text
  found         \* and what it returned

vars == << entry, url, file, pc, driver, ran, quits, lateOps, loginStep, raised,
           outcome, last_height, attempts, new_height, iterations, changes, lastChange,
           decreased, stableRun, passes, lastPage, clicks, loopEnd, snapshot, emails,
           writes, saveEnd, text, found >>

loopVars == << last_height, attempts, new_height, iterations, changes, lastChange,
              decreased, stableRun, passes, lastPage, clicks, loopEnd >>

\* a direct call of extract_emails_from_text
callVars == << text, found >>

NoDoc == [ absent |-> TRUE ]

\* a run of main(): the scraper object is not constructed yet
RunInit ==
  /\ entry \in Entries
  /\ url \in Urls
  /\ file \in {NoFile, OldContent}
  /\ pc = "construct"
  /\ driver = "None"
  /\ ran = {}
  /\ quits = 0
  /\ lateOps = FALSE
  /\ loginStep = "none"
  /\ raised = "none"
  /\ outcome = "running"
  /\ last_height = 0
  /\ attempts = 0
  /\ new_height = 0
  /\ iterations = 0
  /\ changes = 0
  /\ lastChange = 0
  /\ decreased = FALSE
  /\ stableRun = 0
  /\ passes = 0
  /\ lastPage = NoControls
  /\ clicks = << >>
  /\ loopEnd = "none"
  /\ snapshot = NoDoc
  /\ emails = {}
  /\ writes = 0
  /\ saveEnd = "none"

Init == RunInit /\ text = << >> /\ found = {}

\* a driver operation: records it, and whether the driver was live
DriverOp(ops) ==
  /\ ran' = ran \cup ops
  /\ lateOps' = (lateOps \/ driver # "live")

\* leaving the with block: __exit__ then close()
LeaveWith(raising) ==
  IF exit_closes(raising) /\ driver = "live"
  THEN driver' = "None" /\ quits' = quits + 1
  ELSE UNCHANGED << driver, quits >>

\* main() ends: normally, or with exception e caught or escaping
Finish(how) == pc' = "done" /\ outcome' = how

FinishRaising(e) ==
  /\ raised' = e
  /\ Finish(IF main_catches(entry) THEN "error_printed" ELSE "escaped")

\* LinkedInCommentsScraper(...): setup_driver creates the browser or re-raises
Construct ==
  /\ pc = "construct"
  /\ \E ok \in BOOLEAN :
       IF ok
       THEN /\ driver' = "live"
            /\ ran' = ran \cup {"setup"}
            /\ pc' = "login"
            /\ UNCHANGED << raised, outcome >>
       ELSE /\ FinishRaising("SetupFailure")
            /\ UNCHANGED << driver, ran >>
  /\ UNCHANGED << entry, url, file, quits, lateOps, loginStep, snapshot, emails, writes,
                  saveEnd >>
  /\ UNCHANGED loopVars
  /\ UNCHANGED callVars

\* login_to_linkedin and the test of its result in main()
Login ==
  /\ pc = "login"
  /\ \E step \in {"ok", "timeout", "error"} :
       /\ loginStep' = step
       /\ DriverOp({"login", "get_login"})
       /\ IF login_result(step)
          THEN /\ pc' = "scrape"
               /\ UNCHANGED << driver, quits, outcome >>
          ELSE /\ LeaveWith(FALSE)
               /\ Finish("login_failed")
  /\ UNCHANGED << entry, url, file, raised, snapshot, emails, writes, saveEnd >>
  /\ UNCHANGED loopVars
  /\ UNCHANGED callVars

\* scrape_comments up to the call of load_all_comments
ScrapeBegin ==
  /\ pc = "scrape"
  /\ IF scrape_rejects(url)
     THEN /\ LeaveWith(TRUE)
          /\ FinishRaising("ValueError")
          /\ UNCHANGED << ran, lateOps, emails >>
     ELSE \E nav \in {"ok", "timeout", "error"} :
            /\ DriverOp({"get_post"})
            /\ UNCHANGED raised
            /\ IF nav = "ok"
               THEN /\ pc' = "expanding"
                    /\ UNCHANGED << driver, quits, outcome, emails >>
               ELSE \* caught in scrape_comments, which returns set()
                    /\ emails' = {}
                    /\ pc' = "returned"
                    /\ UNCHANGED << driver, quits, outcome >>
  /\ UNCHANGED << entry, url, file, loginStep, snapshot, writes, saveEnd >>
  /\ UNCHANGED loopVars
  /\ UNCHANGED callVars

\* counting, up to MaxIter
Count(n) == IF n < MaxIter THEN n + 1 ELSE MaxIter

\* the measurement h is taken: how it compares with the one before
Record(h) ==
  /\ iterations' = Count(iterations)
  /\ changes' = IF h # last_height THEN Count(changes) ELSE changes
  /\ lastChange' = IF h # last_height THEN Count(iterations) ELSE lastChange
  /\ decreased' = (decreased \/ h < last_height)
  /\ stableRun' = IF iterations > 0 /\ h = new_height THEN Count(stableRun) ELSE 1

\* one iteration of the while loop of load_all_comments, and the test of the
\* loop condition that follows it
LoopIteration ==
  /\ pc = "expanding"
  /\ KeepLooping(attempts)
  /\ \E step \in {"scroll_raises", "measure_raises", "measured"} :
       IF step # "measured"
       THEN /\ DriverOp({"expand", "scroll"}
                          \cup IF step = "measure_raises" THEN {"measure"} ELSE {})
            /\ loopEnd' = "failed"
            /\ pc' = AfterLoopError
            /\ UNCHANGED << last_height, attempts, new_height, iterations, changes,
                            lastChange, decreased, stableRun, passes, lastPage, clicks >>
       ELSE \E h \in Heights :
              IF Unchanged(h, last_height)
              THEN /\ DriverOp({"expand", "scroll", "measure"})
                   /\ attempts' = attempts + 1
                   /\ new_height' = h
                   /\ Record(h)
                   /\ loopEnd' = IF KeepLooping(attempts') THEN "none" ELSE "converged"
                   /\ pc' = IF KeepLooping(attempts') THEN "expanding" ELSE "terminal"
                   /\ UNCHANGED << last_height, passes, lastPage, clicks >>
              ELSE \E page \in ControlPages :
                   /\ DriverOp({"expand", "scroll", "measure", "find"}
                                 \cup IF ClicksOf(page, 1) = << >> THEN {} ELSE {"click"})
                   /\ last_height' = h
                   /\ attempts' = 0
                   /\ new_height' = h
                   /\ Record(h)
                   /\ passes' = Count(passes)
                   /\ lastPage' = page
                   /\ clicks' = ClicksOf(page, 1)
                   /\ UNCHANGED << loopEnd, pc >>
  /\ UNCHANGED << entry, url, file, driver, quits, loginStep, raised, outcome,
                  snapshot, emails, writes, saveEnd >>
  /\ UNCHANGED callVars

\* scrape_comments after load_all_comments returned: page_source, the
\* selector walk, the fallback and the scripts
Harvest ==
  /\ pc = "terminal"
  /\ DriverOp({"page_source"})
  /\ \/ \* page_source raises: caught in scrape_comments, which returns set()
        emails' = {} /\ UNCHANGED snapshot
     \/ \E src \in Docs : emails' = HarvestEmails(src) /\ snapshot' = src
  /\ pc' = "returned"
  \* the locals of load_all_comments are gone
  /\ last_height' = 0 /\ attempts' = 0 /\ new_height' = 0 /\ iterations' = 0
  /\ changes' = 0 /\ lastChange' = 0 /\ decreased' = FALSE /\ stableRun' = 0
  /\ passes' = 0 /\ lastPage' = NoControls /\ clicks' = << >>
  /\ UNCHANGED << entry, url, file, driver, quits, loginStep, raised, outcome,
                  loopEnd, writes, saveEnd >>
  /\ UNCHANGED callVars

\* save_emails_to_file(addresses, filename): the failure of open() or of a
\* write is caught and printed
Save(addresses) ==
  \E how \in WriteOutcomes(addresses) :
    /\ file' = FileAfterSave(file, addresses, how)
    /\ writes' = writes + 1
    /\ saveEnd' = how.kind

\* main() after scrape_comments returned: print, save when there are
\* addresses, and leave the with block
ReportAndSave ==
  /\ pc = "returned"
  /\ IF main_saves(emails)
     THEN /\ Save(emails)
          /\ ran' = ran \cup {"sink"}
     ELSE UNCHANGED << file, writes, saveEnd, ran >>
  /\ LeaveWith(FALSE)
  /\ Finish("completed")
  /\ UNCHANGED << entry, url, lateOps, loginStep, raised, snapshot, emails >>
  /\ UNCHANGED loopVars
  /\ UNCHANGED callVars

Next ==
  \/ Construct
  \/ Login
  \/ ScrapeBegin
  \/ LoopIteration
  \/ Harvest
  \/ ReportAndSave

Spec == Init /\ [][Next]_vars

(***************************************************************************)
(* The methods called directly on a constructed scraper.                   *)
(***************************************************************************)
\* longest text given to extract_emails_from_text
MaxTextLen == 6

\* a letter, a digit, the dot, the at sign, the bar and a noise character
TextAlphabet == {"a", "1", ".", "@", "|", "!"}

Texts == UNION { [ 1..n -> TextAlphabet ] : n \in 0..MaxTextLen }

\* the addresses given to save_emails_to_file
EmailPool ==
  { <<"z", "@", "x", ".", "c", "o", "m">>, <<"a", "@", "x", ".", "c", "o", "m">>, <<"a", "@",
        "x", ".", "c", "o">>, <<"B", "@", "x", ".", "c", "o", "m">>, <<"a", "1", "@", "x", ".",
        "c", "o", "m">> }

\* the post used by the direct calls
PostUrl == <<"h", "t", "t", "p", "s", ":", "/", "/", "w", "w", "w", ".", "l", "i", "n", "k",
      "e", "d", "i", "n", ".", "c", "o", "m", "/", "p", "o", "s", "t", "s", "/", "a", "b", "c",
      "1", "2", "3">>

\* a constructed scraper on which nothing has been called yet
Constructed ==
  /\ entry = "cli" /\ url = PostUrl
  /\ driver = "live" /\ ran = {"setup"} /\ quits = 0 /\ lateOps = FALSE
  /\ loginStep = "none" /\ raised = "none" /\ outcome = "running"
  /\ last_height = 0 /\ attempts = 0 /\ new_height = 0 /\ iterations = 0
  /\ changes = 0 /\ lastChange = 0 /\ decreased = FALSE /\ stableRun = 0
  /\ passes = 0 /\ lastPage = NoControls /\ clicks = << >> /\ loopEnd = "none"
  /\ snapshot = NoDoc /\ writes = 0 /\ saveEnd = "none"

\* extract_emails_from_text is about to be called on a text
ExtractInit ==
  /\ Constructed
  /\ pc = "extract"
  /\ text \in Texts /\ found = {}
  /\ file = NoFile /\ emails = {}

\* scraper.extract_emails_from_text(text)
Extract ==
  /\ pc = "extract"
  /\ found' = extract_emails_from_text(text)
  /\ pc' = "extracted"
  /\ UNCHANGED << entry, url, file, driver, ran, quits, lateOps, loginStep, raised,
                  outcome, snapshot, emails, writes, saveEnd, text >>
  /\ UNCHANGED loopVars

ExtractSpec == ExtractInit /\ [][Extract]_vars

\* save_emails_to_file is about to be called on a set of addresses
SaveInit ==
  /\ Constructed
  /\ pc = "save"
  /\ emails \in SUBSET EmailPool
  /\ file \in {NoFile, OldContent}
  /\ text = << >> /\ found = {}

\* scraper.save_emails_to_file(emails, filename)
SaveCall ==
  /\ pc = "save"
  /\ Save(emails)
  /\ pc' = "saved"
  /\ UNCHANGED << entry, url, driver, ran, quits, lateOps, loginStep, raised, outcome,
                  snapshot, emails >>
  /\ UNCHANGED loopVars
  /\ UNCHANGED callVars

SaveSpec == SaveInit /\ [][SaveCall]_vars

\* the interpreter goes on executing the loop: an iteration that can be
\* taken is taken
FairSpec == Spec /\ WF_vars(LoopIteration)

(***************************************************************************)
(* Properties                                                              *)
(***************************************************************************)
\* load_all_comments returned through its loop condition
Converged == pc = "terminal" /\ loopEnd = "converged"

\* scrape_comments read the page and returned its harvest
Harvested == pc \in {"returned", "done"} /\ snapshot # NoDoc

\* the measured extent was larger than the one before on iterations 1, 2 and
\* 3 and has not changed since
GrewThreeThenPlateau == changes = 3 /\ lastChange = 3 /\ ~decreased

\* C1: with retries = 3, a run of the loop over a document whose extent is
\* larger than the measurement before on iterations 1, 2 and 3 and constant
\* afterwards takes exactly 3 + retries = 6 measurements and then returns.
C1_ThreeGrowthsThenThreshold ==
  (Converged /\ GrewThreeThenPlateau) => iterations = 3 + retries

C1_Witness == Converged /\ GrewThreeThenPlateau /\ iterations = 6

\* the same positive extent at every measurement: only the first measurement
\* differs from the one before it (the initial last_height, 0)
ConstantPositive == changes = 1 /\ lastChange = 1 /\ last_height > 0

\* the extent is 0 at every measurement
ConstantZero == changes = 0 /\ iterations > 0

\* C2 as stated: over a document whose extent is the same positive value at
\* every measurement the loop takes exactly retries (3) measurements.
C2_Original == (Converged /\ ConstantPositive) => iterations = retries

\* C2, amended: over such a document the loop takes exactly retries + 1 = 4
\* measurements, because the first one differs from the initial last_height
\* of 0 and counts as new content; it takes exactly retries measurements only
\* when the extent is 0 every time; it never returns after fewer.
C2_ConstantExtent ==
  /\ (Converged /\ ConstantPositive) => iterations = retries + 1
  /\ (Converged /\ ConstantZero) => iterations = retries
  /\ Converged => iterations >= retries

C2_Witness == Converged /\ ConstantPositive /\ iterations = 4

\* C3 as stated: every iteration of the loop runs the click pass.
C3_Original == passes = iterations

\* C3, amended: the click pass runs in exactly the iterations whose
\* measurement differs from the one before; an iteration that measures an
\* unchanged extent counts an attempt and skips the pass.
C3_PassOnlyOnChange ==
  /\ passes = changes
  /\ (passes > 0 => {"find", "measure", "scroll"} \subseteq ran)
  /\ (clicks # << >> => passes > 0 /\ "click" \in ran)

C3_Witness == pc = "expanding" /\ passes = 2 /\ iterations = 4 /\ clicks # << >>

\* C4 as stated: whatever extents the page reports, a run of the loop ends.
C4_LoopTerminates == (pc = "expanding") ~> (pc # "expanding")

\* the addresses of the harvest if only the first matching pattern were used
FirstPatternEmails(doc) ==
  UNION { EmailsOfNodes(select(doc, s)) : s \in ProcessedFirstOnly(doc) }
    \cup FallbackEmails(doc) \cup ScriptEmails(doc)

\* C5 as stated: only the nodes of the first pattern that matches are passed
\* to the extractor; later patterns contribute no address.
C5_Original == Harvested => emails = FirstPatternEmails(snapshot)

\* C5, amended: the patterns are tried in their order and none ends the
\* walk: the nodes of every pattern that matches are passed to the extractor
\* and their addresses are in the result; for a document matching patterns 1
\* and 3 the addresses of both come from the selector walk.
C5_EveryMatchingPatternContributes ==
  Harvested =>
    /\ \A s \in MatchingSelectors(snapshot) :
         EmailsOfNodes(select(snapshot, s)) \subseteq emails
    /\ emails =
         UNION { EmailsOfNodes(select(snapshot, s)) : s \in comment_selectors }
           \cup FallbackEmails(snapshot) \cup ScriptEmails(snapshot)

C5_Witness ==
  /\ Harvested
  /\ MatchingSelectors(snapshot) = {1, 3}
  /\ emails # FirstPatternEmails(snapshot)

\* C6: once the browser exists, driver.quit is called exactly once on every
\* way out of main (success, login failure, ValueError, failed scrape), and
\* no driver operation is performed without a live driver.
C6_SessionReleasedOnce ==
  /\ quits <= 1
  /\ ~lateOps
  /\ (driver = "live" => quits = 0 /\ "setup" \in ran)
  /\ (pc = "done" /\ "setup" \in ran => quits = 1 /\ driver = "None")
  /\ ("setup" \notin ran => quits = 0)

C6_Witness == pc = "done" /\ raised = "ValueError" /\ quits = 1

\* C7 as stated: a URL that fails validation ends the run before a browser
\* is created, a login attempted or any page navigated to.
C7_Original ==
  raised = "ValueError" => ran \cap {"setup", "login", "get_login"} = {}

\* C7, amended: a URL that fails validation ends the run with ValueError
\* before the post is navigated to and before expansion, harvest or write;
\* the check is made inside scrape_comments, after the browser was created
\* and the login succeeded, and the session is then released.
C7_InvalidUrlStopsBeforePost ==
  /\ (pc \notin {"construct", "login", "scrape"} /\ loginStep = "ok"
        /\ ~validate_linkedin_url(url))
     => /\ raised = "ValueError"
        /\ pc = "done" /\ outcome \in {"error_printed", "escaped"}
        /\ ran = {"setup", "login", "get_login"}
        /\ quits = 1 /\ writes = 0 /\ emails = {}
  /\ raised = "ValueError" => ~validate_linkedin_url(url)

C7_Witness == raised = "ValueError" /\ pc = "done" /\ "get_login" \in ran

\* C8: when the login steps time out or raise, login_to_linkedin returns
\* False, nothing is raised, and the run ends with no scraping: the post is
\* not navigated to, the loop and the harvest do not run, nothing is written.
C8_LoginFailureAborts ==
  loginStep \in {"timeout", "error"} =>
    /\ pc = "done" /\ outcome = "login_failed" /\ raised = "none"
    /\ ran = {"setup", "login", "get_login"}
    /\ writes = 0 /\ file \in {NoFile, OldContent}
    /\ snapshot = NoDoc /\ emails = {} /\ iterations = 0

C8_Witness == loginStep = "error" /\ pc = "done" /\ quits = 1

\* C9 as stated: after a scroll or measurement of the loop raises, the scrape
\* yields the addresses of the content loaded so far, not an empty result.
C9_Original ==
  (loopEnd = "failed" /\ pc \in {"returned", "done"}) =>
    /\ snapshot # NoDoc
    /\ outcome # "escaped"

\* C9, amended: after a scroll or measurement of the loop raises, the loop
\* is over (no further scroll, measurement or click), the error is printed
\* and swallowed in load_all_comments, and scrape_comments goes on to read
\* the page: it returns the addresses of the content loaded so far when that
\* read succeeds and the empty set when it raises; nothing propagates.
C9_LoopFailureEndsLoop ==
  loopEnd = "failed" =>
    /\ pc \in {"terminal", "returned", "done"}
    /\ raised = "none" /\ outcome \in {"running", "completed"}
    /\ (pc = "terminal" => snapshot = NoDoc /\ "page_source" \notin ran)
    /\ (pc # "terminal" =>
          /\ "page_source" \in ran
          /\ snapshot = NoDoc => emails = {}
          /\ snapshot # NoDoc =>
               \A s \in MatchingSelectors(snapshot) :
                 EmailsOfNodes(select(snapshot, s)) \subseteq emails)

C9_Witness == loopEnd = "failed" /\ pc = "returned" /\ emails # {}

\* C10 as stated: only a failure to set up the browser leaves main() as an
\* exception, in linkedin_scraper.py and in example_usage.py.
C10_OnlySetupFailureEscapes == outcome = "escaped" => raised = "SetupFailure"


(***************************************************************************)
(* The empty harvest, the counter and the comparison of the extents.       *)
(***************************************************************************)
\* scrape_comments read a document without any address
EmptyHarvest == Harvested /\ emails = {} /\ loginStep = "ok"

\* C11 as stated: after a successful login and a valid URL, a document without
\* any address yields the empty set, and save_emails_to_file is still called
\* and leaves an output file that exists and has zero lines.
C11_Original ==
  (pc = "done" /\ EmptyHarvest) => (writes = 1 /\ file = FileWith(<< >>))

\* C11: after a successful login and a valid URL, a document without any
\* address yields the empty set, and main() then does not call
\* save_emails_to_file: the output file stays as it was before the run.
C11_EmptyHarvestIsNotSaved ==
  [][(pc = "returned" /\ EmptyHarvest)
       => (file' = file /\ writes' = 0 /\ saveEnd' = "none" /\ "sink" \notin ran')]_vars

C11_Witness ==
  /\ pc = "done" /\ outcome = "completed"
  /\ EmptyHarvest /\ snapshot = DocNoEmail
  /\ validate_linkedin_url(url)
  /\ file = OldContent

\* C12: the counter of unchanged measurements stays within 0..retries, every
\* iteration that increases last_height resets it to 0, and unless a driver
\* call failed the loop has ended exactly when the counter equals retries.
C12_CounterBounded ==
  /\ [](/\ attempts \in 0..retries
        /\ (loopEnd # "failed" => (pc = "terminal" <=> attempts = retries)))
  /\ [][last_height' > last_height => attempts' = 0]_vars

C12_Witness ==
  pc = "terminal" /\ loopEnd = "converged" /\ attempts = retries /\ changes >= 2

\* C13 as stated: last_height is replaced and the counter reset only when the
\* measured extent is strictly greater, so last_height never decreases during
\* the loop.
C13_Original == [][pc = "expanding" => last_height' >= last_height]_vars

\* C13: an iteration that measured the extent makes last_height equal to the
\* measurement; a measurement different from last_height, smaller ones
\* included, resets the counter to 0, an equal one adds 1 to it.
C13_ResetOnAnyDifference ==
  [][(pc = "expanding" /\ loopEnd' # "failed")
       => /\ last_height' = new_height'
          /\ attempts' = IF new_height' = last_height THEN attempts + 1 ELSE 0]_vars

C13_Witness ==
  /\ pc = "expanding" /\ decreased
  /\ iterations = 3 /\ changes = 2 /\ lastChange = 3
  /\ attempts = 0 /\ last_height = new_height /\ last_height < MaxHeight

(***************************************************************************)
(* The extractor called on arbitrary texts.                                *)
(***************************************************************************)
\* the email-shape grammar: local part, "@", domain part, ".", and a top-level
\* domain of two or more letters
WellFormed(e) ==
  \E i, j \in 1..Len(e) :
    /\ 1 < i /\ i + 1 < j /\ j + 2 <= Len(e)
    /\ e[i] = "@" /\ e[j] = "."
    /\ \A k \in 1..(i - 1) : e[k] \in LocalChars
    /\ \A k \in (i + 1)..(j - 1) : e[k] \in DomainChars
    /\ \A k \in (j + 1)..Len(e) : e[k] \in Upper \cup Lower

\* C14: for every text over letters, digits, ".", "@", "|" and a noise
\* character, every string returned by extract_emails_from_text matches the
\* email-shape grammar, whose top-level domain has letters only.
C14_ReturnedAreWellFormed ==
  pc = "extracted" => \A e \in found : WellFormed(e)

(***************************************************************************)
(* The set of addresses of a scrape.                                       *)
(***************************************************************************)
\* C15: the set of a scrape starts empty and never loses a member: each pass
\* of the harvest (every selector, the fallback, every script tag) keeps what
\* the passes before it collected, whatever a pass adds is in the set that
\* scrape_comments returns, and the set is written at most once per run.
C15_UnionOnly ==
  /\ [](/\ writes <= 1
        /\ (pc \notin {"returned", "done"} => emails = {})
        /\ (Harvested =>
              /\ \A s \in comment_selectors :
                   AfterSelectors(snapshot, s - 1) \subseteq AfterSelectors(snapshot, s)
              /\ AfterSelectors(snapshot, Cardinality(comment_selectors))
                   \subseteq AfterFallback(snapshot)
              /\ \A n \in DOMAIN snapshot.scripts :
                   AfterScripts(snapshot, n - 1) \subseteq AfterScripts(snapshot, n)
              /\ SelectorEmails(snapshot) \cup FallbackEmails(snapshot)
                   \cup ScriptEmails(snapshot) \subseteq emails))
  /\ [][emails \subseteq emails']_vars

C15_Witness ==
  /\ pc = "done" /\ Harvested /\ writes = 1 /\ saveEnd = "ok"
  /\ SelectorEmails(snapshot) # {} /\ ScriptEmails(snapshot) # {}
  /\ ~(ScriptEmails(snapshot) \subseteq SelectorEmails(snapshot))
  /\ ~(SelectorEmails(snapshot) \subseteq ScriptEmails(snapshot))

(***************************************************************************)
(* The output file.                                                        *)
(***************************************************************************)
RECURSIVE LinesOf(_)
\* the lines of a text in which every line ends with a newline
LinesOf(t) ==
  IF t = << >> THEN << >>
  ELSE LET nl == FirstIndex(t, {"\n"}, 1)
       IN << SubSeq(t, 1, nl - 1) >> \o LinesOf(SubSeq(t, nl + 1, Len(t)))

\* C16: after a call of save_emails_to_file that succeeded, the file exists
\* and its content is the given addresses in ascending order, each once and
\* each followed by a newline, whatever the file held before; the set
\* {z@x.com, a@x.com} gives the lines a@x.com and z@x.com.
C16_SortedLines ==
  (pc = "saved" /\ saveEnd = "ok") =>
    /\ file.exists
    /\ (file.text # << >> => file.text[Len(file.text)] = "\n")
    /\ LET lines == LinesOf(file.text) IN
         /\ Len(lines) = Cardinality(emails)
         /\ { lines[i] : i \in DOMAIN lines } = emails
         /\ \A i, j \in DOMAIN lines : i < j => LexLess(lines[i], lines[j])
    /\ (emails = { <<"z", "@", "x", ".", "c", "o", "m">>, <<"a", "@", "x", ".", "c", "o",
          "m">> }
          => file.text = <<"a", "@", "x", ".", "c", "o", "m", "\n", "z", "@", "x", ".", "c",
                "o", "m", "\n">>)

C16_Witness ==
  /\ pc = "saved" /\ saveEnd = "ok"
  /\ emails = { <<"z", "@", "x", ".", "c", "o", "m">>, <<"a", "@", "x", ".", "c", "o", "m">> }
  /\ file = FileWith(<<"a", "@", "x", ".", "c", "o", "m", "\n", "z", "@", "x", ".", "c", "o",
        "m", "\n">>)
  /\ writes = 1

(***************************************************************************)
(* Failures inside a click pass.                                           *)
(***************************************************************************)
\* the controls of a page that are displayed and whose click does not raise
Clickable(page) ==
  { << s, i >> \in show_more_selectors \X (1..4) :
      i \in DOMAIN page[s] /\ page[s][i] = "visible" }

\* a lookup, an is_displayed or a click of the page raises
HasFailure(page) ==
  \E s \in show_more_selectors : \E i \in DOMAIN page[s] : Failing(page[s][i])

\* C17: a lookup, an is_displayed or a click that raises inside a click pass
\* is swallowed: the pass still clicks every other displayed control exactly
\* once, in the order of the selectors, the iteration leaves the counter at 0
\* and last_height at the measurement as it does without a failure, and the
\* loop goes on.
C17_PassSurvivesFailures ==
  /\ []((pc = "expanding" /\ passes > 0) =>
          /\ loopEnd = "none"
          /\ { clicks[k] : k \in DOMAIN clicks } = Clickable(lastPage)
          /\ Len(clicks) = Cardinality(Clickable(lastPage))
          /\ \A k \in DOMAIN clicks : \A l \in DOMAIN clicks :
               k < l => \/ clicks[k][1] < clicks[l][1]
                        \/ clicks[k][1] = clicks[l][1] /\ clicks[k][2] < clicks[l][2])
  /\ [][(pc = "expanding" /\ lastPage' # lastPage /\ HasFailure(lastPage'))
          => /\ pc' = "expanding" /\ loopEnd' = "none"
             /\ attempts' = 0 /\ last_height' = new_height']_vars

C17_Witness ==
  /\ pc = "expanding" /\ passes = 1 /\ attempts = 0
  /\ HasFailure(lastPage)
  /\ lastPage[1] = << "raise" >>
  /\ clicks = << << 5, 2 >>, << 9, 1 >> >>

(***************************************************************************)
(* The fallback and the script tags.                                       *)
(***************************************************************************)
\* the addresses in the text of the whole document
WholeTextEmails(doc) == extract_emails_from_text(get_text(doc))

\* C18: the text of the whole document is given to the extractor exactly when
\* no selector matched anything, and the script tags are always processed:
\* the returned set is the addresses of the script tags together with those
\* of the whole text if no selector matched and with those of the matched
\* nodes otherwise.
C18_FallbackIffNoMatch ==
  Harvested =>
    /\ ScriptEmails(snapshot) \subseteq emails
    /\ \A i \in DOMAIN snapshot.scripts :
         snapshot.scripts[i] # NoString
           => extract_emails_from_text(snapshot.scripts[i]) \subseteq emails
    /\ IF \A s \in comment_selectors : select(snapshot, s) = << >>
       THEN emails = WholeTextEmails(snapshot) \cup ScriptEmails(snapshot)
       ELSE emails = ScriptEmails(snapshot) \cup
                     UNION { EmailsOfNodes(select(snapshot, s)) : s \in comment_selectors }

C18_Witness ==
  /\ Harvested
  /\ \A s \in comment_selectors : select(snapshot, s) = << >>
  /\ WholeTextEmails(snapshot) # {} /\ ScriptEmails(snapshot) # {}
  /\ emails = WholeTextEmails(snapshot) \cup ScriptEmails(snapshot)


(***************************************************************************)
(* What the exit through the loop condition tells about the page.          *)
(***************************************************************************)
\* C19: when load_all_comments leaves the loop through its condition, the
\* last `retries` measurements were made one after the other with no click
\* pass between them and all equal last_height; the clicks of the last
\* iteration that saw a change are followed by `retries` further
\* measurements.
C19_ExitMeansStable ==
  Converged =>
    /\ attempts = retries
    /\ new_height = last_height
    /\ stableRun = retries + (IF changes > 0 THEN 1 ELSE 0)
    /\ (iterations < MaxIter => iterations - lastChange = retries)
    /\ (passes > 0 => changes > 0)

C19_Witness ==
  /\ Converged /\ decreased
  /\ changes = 3 /\ passes = 3 /\ iterations = 3 + retries
  /\ stableRun = retries + 1 /\ clicks # << >>

(***************************************************************************)
(* Navigation only to validated URLs.                                      *)
(***************************************************************************)
\* the driver calls and the write that follow the validation
AfterValidation == {"get_post", "expand", "scroll", "measure", "find", "page_source", "sink"}

\* C20: the browser is only sent to a post URL that validate_linkedin_url
\* accepted; for a URL it rejects, scrape_comments raises ValueError before
\* any driver call: no navigation, no scroll, no read of the page, and the
\* set of addresses and the output file are not touched.
C20_NavigateOnlyValidated ==
  /\ []("get_post" \in ran => validate_linkedin_url(url))
  /\ [](raised = "ValueError" =>
          /\ ran \cap AfterValidation = {}
          /\ emails = {} /\ snapshot = NoDoc /\ writes = 0 /\ saveEnd = "none"
          /\ file \in {NoFile, OldContent})
  /\ [][(pc = "scrape" /\ ~validate_linkedin_url(url))
          => /\ raised' = "ValueError"
             /\ ran' = ran /\ lateOps' = lateOps
             /\ emails' = emails /\ file' = file /\ writes' = writes
             /\ iterations' = iterations /\ passes' = passes]_vars

C20_Witness ==
  /\ pc = "done" /\ raised = "ValueError" /\ outcome = "escaped"
  /\ url = <<"h", "t", "t", "p", "s", ":", "/", "/", "w", "w", "w", ".", "e", "x", "a", "m",
        "p", "l", "e", ".", "c", "o", "m", "/", "p", "o", "s", "t", "s", "/", "1", "2", "3">>
  /\ file = OldContent /\ ran = {"setup", "login", "get_login"}
================================================================
